---- MODULE Spec2Model ----
(***************************************************************************)
(* Device-side assertion recording of c10/cuda/CUDADeviceAssertion.h:      *)
(* the bounded string copier dstrcpy and the concurrent failure recorder   *)
(* dsa_add_new_assertion_failure, called through CUDA_KERNEL_ASSERT2 by    *)
(* the threads of one kernel launch that share one DeviceAssertionsData.   *)
(*                                                                         *)
(* Memory is modelled sequentially consistent and every store of the       *)
(* recorder is one step of the calling thread, in program order.           *)
(***************************************************************************)
EXTENDS Integers, Sequences, FiniteSets, TLC

\* ------------------------------------------------------------------ bounds
\* Capacity of the record array.  The macro is defined outside this header;
\* the model scales it down.
C10_CUDA_DEVICE_SIDE_ASSERTION_COUNT == 2
\* Size in bytes of each string field of a record (scaled down likewise).
C10_CUDA_DEVICE_SIDE_MAX_STR_LEN == 4
\* Number of device threads of the launch that may fail their assertion.
NumThreads == 4
\* Longest source string handed to dstrcpy in CopySpec.
MaxSrcLen == 5

Threads == 1..NumThreads
NUL == 0
\* Non-null characters of source strings.
Chars == {1, 2}

\* ---------------------------------------------------------------- strings
\* A C string is the sequence of its non-null characters; its terminator
\* sits at (0-based) index Len(src).  SrcAt is the read src[i].
SrcAt(src, i) == IF i < Len(src) THEN src[i + 1] ELSE NUL

\* A destination is a sequence of C10_CUDA_DEVICE_SIDE_MAX_STR_LEN bytes;
\* dst[i] of the code is dst[i + 1] here.
ZeroStr == [k \in 1..C10_CUDA_DEVICE_SIDE_MAX_STR_LEN |-> NUL]
\* A destination full of bytes left by an earlier user of the memory.
GarbageStr == [k \in 1..C10_CUDA_DEVICE_SIDE_MAX_STR_LEN |-> 9]

LoopCondUnbounded(src, i) == SrcAt(src, i) # NUL

\* The loop condition of line 15.
LoopCond(src, i) ==
  SrcAt(src, i) # NUL /\ i < C10_CUDA_DEVICE_SIDE_MAX_STR_LEN - 1

\* The loop body of line 16.
LoopBody(dst, src, i) == [dst EXCEPT ![i + 1] = SrcAt(src, i)]

\* Lines 22-24: the terminator written at *dst when the loop ran to its bound.
FinishKeepPrefix(dst, i) ==
  IF i = C10_CUDA_DEVICE_SIDE_MAX_STR_LEN - 1
    THEN [dst EXCEPT ![i + 1] = NUL]
    ELSE dst

Finish(dst, i) ==
  IF i = C10_CUDA_DEVICE_SIDE_MAX_STR_LEN - 1
    THEN [dst EXCEPT ![1] = NUL]
    ELSE dst

RECURSIVE CopyLoop(_, _, _)
CopyLoop(dst, src, i) ==
  IF LoopCond(src, i)
    THEN CopyLoop(LoopBody(dst, src, i), src, i + 1)
    ELSE [dst |-> dst, i |-> i]

\* dstrcpy(dst, src): the contents of dst after the call.
dstrcpy(dst, src) ==
  LET r == CopyLoop(dst, src, 0) IN Finish(r.dst, r.i)

\* The string a destination reads as: its bytes before the first null byte
\* (the whole array when it holds none: the string is then unterminated).
RECURSIVE CStr(_)
CStr(dst) ==
  IF dst = <<>> \/ Head(dst) = NUL THEN <<>> ELSE <<Head(dst)>> \o CStr(Tail(dst))

\* ------------------------------------------------------------- call sites
\* Str(c, n): the string of n characters c.
Str(c, n) == [k \in 1..n |-> c]

\* The CUDA_KERNEL_ASSERT2 call sites of the kernel: the string literals and
\* the line a failing thread passes.  Their lengths straddle the copier's
\* bound: shorter than, equal to and longer than MAX_STR_LEN - 1.
SiteA ==
  [assertion_msg |-> Str(1, 1),
   filename      |-> Str(2, C10_CUDA_DEVICE_SIDE_MAX_STR_LEN - 1),
   function_name |-> Str(1, 2),
   line_number   |-> 11]
SiteB ==
  [assertion_msg |-> Str(2, C10_CUDA_DEVICE_SIDE_MAX_STR_LEN + 1),
   filename      |-> Str(1, 2),
   function_name |-> Str(2, 1),
   line_number   |-> 22]

\* The call site at which thread t's assertion fails: the threads of even
\* threadIdx.x run into the first, the others into the second.
SiteOf(t) == IF (t - 1) % 2 = 0 THEN SiteA ELSE SiteB

\* assertion_caller_id: a kernel argument, the same for every thread.
\* blockIdx and threadIdx: the coordinates of thread t (two threads a block).
CallerId == 7
BlockIdx(t) == <<(t - 1) \div 2, 0, 0>>
ThreadIdx(t) == <<(t - 1) % 2, 0, 0>>

\* ------------------------------------------------------------------ state
VARIABLES
  pc,                        \* position of each thread
  buffer,                    \* per thread: is its assertions_data non-null
  nid,                       \* per thread: the local nid (line 44), -1 before
  next,                      \* per thread: index in Stores of its next store
  reg,                       \* per thread: the load of the spin condition held
  spinBuild,                 \* what the build made of the loop of lines 58-60
  assertion_count,           \* assertions_data->assertion_count
  assertion_failure_written, \* assertions_data->assertion_failure_written
  assertions,                \* assertions_data->assertions, and the record-sized
                             \* memory that follows it (index = capacity), where
                             \* a store through assertions[capacity] lands
  writers,                   \* history: per slot and store, the threads that did it
  cp                         \* the dstrcpy call of CopySpec

recorderVars ==
  <<pc, buffer, nid, next, reg, spinBuild, assertion_count,
    assertion_failure_written, assertions, writers>>
vars == <<recorderVars, cp>>

\* The stores of lines 66-76, in program order, one step for each of the
\* seven fields of the record: a dstrcpy call (66-68), an assignment (69-70),
\* the three coordinates of block_id (71-73) and of thread_id (74-76).
Stores ==
  << "assertion_msg", "filename", "function_name", "line_number", "caller",
     "block_id", "thread_id" >>
StoreSet == {Stores[k] : k \in 1..Len(Stores)}

\* A zero-initialized DeviceAssertionData.
ZeroRecord ==
  [assertion_msg |-> ZeroStr, filename |-> ZeroStr, function_name |-> ZeroStr,
   line_number |-> 0, caller |-> 0,
   block_id |-> <<0, 0, 0>>, thread_id |-> <<0, 0, 0>>]

\* Indices of the array, and of the memory the recorder can reach.
SlotIndices == 0..(C10_CUDA_DEVICE_SIDE_ASSERTION_COUNT - 1)
Reachable == 0..C10_CUDA_DEVICE_SIDE_ASSERTION_COUNT

NoReg == [of |-> "none", val |-> 0]

CopyIdle ==
  [pc |-> "idle", src |-> <<>>, dst |-> ZeroStr, dst0 |-> ZeroStr, i |-> 0,
   reads |-> {}, writes |-> {}]

RecorderInit ==
  /\ pc = [t \in Threads |-> "idle"]
  /\ buffer = [t \in Threads |-> FALSE]
  /\ nid = [t \in Threads |-> -1]
  /\ next = [t \in Threads |-> 1]
  /\ reg = [t \in Threads |-> NoReg]
  /\ spinBuild \in {"reload", "elide"}
  /\ assertion_count = 0
  /\ assertion_failure_written = 0
  /\ assertions = [k \in Reachable |-> ZeroRecord]
  /\ writers = [k \in Reachable |-> [s \in StoreSet |-> {}]]

Init == RecorderInit /\ cp = CopyIdle

\* The shape of the recorder's state.
TypeOK ==
  /\ pc \in [Threads -> {"idle", "reserve", "write", "publish", "spin",
                         "spin_test", "returned", "trapped"}]
  /\ buffer \in [Threads -> BOOLEAN]
  /\ nid \in [Threads -> -1..(NumThreads - 1)]
  /\ next \in [Threads -> 1..(Len(Stores) + 1)]
  /\ \A t \in Threads : reg[t].of \in {"none", "written", "count"}
  /\ spinBuild \in {"reload", "elide"}
  /\ assertion_count \in 0..NumThreads
  /\ assertion_failure_written \in 0..NumThreads
  /\ DOMAIN assertions = Reachable
  /\ DOMAIN writers = Reachable

\* ------------------------------------------------------------ the recorder
\* The record `self` after thread t's store s (lines 66-76).
StoreInto(self, t, s) ==
  CASE s = "assertion_msg" ->
         [self EXCEPT !.assertion_msg = dstrcpy(@, SiteOf(t).assertion_msg)]
    [] s = "filename" ->
         [self EXCEPT !.filename = dstrcpy(@, SiteOf(t).filename)]
    [] s = "function_name" ->
         [self EXCEPT !.function_name = dstrcpy(@, SiteOf(t).function_name)]
    [] s = "line_number" -> [self EXCEPT !.line_number = SiteOf(t).line_number]
    [] s = "caller" -> [self EXCEPT !.caller = CallerId]
    [] s = "block_id" -> [self EXCEPT !.block_id = BlockIdx(t)]
    [] s = "thread_id" -> [self EXCEPT !.thread_id = ThreadIdx(t)]

\* Line 46: the reservation is out of buffer space.
OutOfSpaceEarly(n) == n >= C10_CUDA_DEVICE_SIDE_ASSERTION_COUNT - 1

OutOfSpace(n) == n > C10_CUDA_DEVICE_SIDE_ASSERTION_COUNT

\* Lines 89-94 and 39-41: thread t's assertion fails at some call site and it
\* calls the recorder; with a null assertions_data the call returns at once.
EntryNoCheck(b) == "reserve"

\* Lines 39-41: where a call goes from the null check.
Entry(b) == IF b THEN "reserve" ELSE "returned"

Call(t) ==
  /\ pc[t] = "idle"
  /\ \E b \in BOOLEAN :
       /\ buffer' = [buffer EXCEPT ![t] = b]
       /\ pc' = [pc EXCEPT ![t] = Entry(b)]
  /\ UNCHANGED <<nid, next, reg, spinBuild, assertion_count,
                 assertion_failure_written, assertions, writers, cp>>

LostUpdate(c) == c

\* The value atomicAdd(&counter, 1) leaves in the counter.
AddOne(c) == c + 1

\* Lines 44-46: the atomic reservation and the capacity check.
Reserve(t) ==
  /\ pc[t] = "reserve"
  /\ nid' = [nid EXCEPT ![t] = assertion_count]
  /\ assertion_count' = AddOne(assertion_count)
  /\ pc' = [pc EXCEPT ![t] =
              IF OutOfSpace(assertion_count) THEN "spin" ELSE "write"]
  /\ UNCHANGED <<buffer, next, reg, spinBuild,
                 assertion_failure_written, assertions, writers, cp>>

LastStoreEarly(n) == n = Len(Stores) - 1

\* Line 76 is the last store before the publication of line 80.
LastStore(n) == n = Len(Stores)

\* Lines 65-76: the next store into self = assertions[nid].
WriteField(t) ==
  /\ pc[t] = "write"
  /\ LET s == Stores[next[t]] IN
       /\ assertions' =
            [assertions EXCEPT ![nid[t]] = StoreInto(@, t, s)]
       /\ writers' = [writers EXCEPT ![nid[t]][s] = @ \cup {t}]
  /\ next' = [next EXCEPT ![t] = @ + 1]
  /\ pc' = [pc EXCEPT ![t] = IF LastStore(next[t]) THEN "publish" ELSE "write"]
  /\ UNCHANGED <<buffer, nid, reg, spinBuild, assertion_count,
                 assertion_failure_written, cp>>

\* Line 80: the atomic publication, then the return of line 81.
Publish(t) ==
  /\ pc[t] = "publish"
  /\ assertion_failure_written' = AddOne(assertion_failure_written)
  /\ pc' = [pc EXCEPT ![t] = "returned"]
  /\ UNCHANGED <<buffer, nid, next, reg, spinBuild, assertion_count,
                 assertions, writers, cp>>

\* Lines 58-59: the first of the two plain loads of the loop condition.  The
\* operands of < are unsequenced: either may be loaded first.
SpinLoad(t) ==
  /\ pc[t] = "spin"
  /\ spinBuild = "reload"
  /\ \E first \in {"written", "count"} :
       reg' = [reg EXCEPT ![t] =
                 [of |-> first,
                  val |-> IF first = "written"
                            THEN assertion_failure_written
                            ELSE assertion_count]]
  /\ pc' = [pc EXCEPT ![t] = "spin_test"]
  /\ UNCHANGED <<buffer, nid, next, spinBuild, assertion_count,
                 assertion_failure_written, assertions, writers, cp>>

\* Lines 58-62: the second load and the test: another turn, or the return.
SpinTest(t) ==
  /\ pc[t] = "spin_test"
  /\ LET w == IF reg[t].of = "written"
                THEN reg[t].val ELSE assertion_failure_written
         c == IF reg[t].of = "count" THEN reg[t].val ELSE assertion_count
     IN pc' = [pc EXCEPT ![t] = IF w < c THEN "spin" ELSE "returned"]
  /\ reg' = [reg EXCEPT ![t] = NoReg]
  /\ UNCHANGED <<buffer, nid, next, spinBuild, assertion_count,
                 assertion_failure_written, assertions, writers, cp>>

\* Lines 58-62: the loop has no side effect and reads the counters with plain
\* loads while other threads add to them; a build may take it to terminate
\* and drop it, so that the thread returns at once.
SpinElided(t) ==
  /\ pc[t] = "spin"
  /\ spinBuild = "elide"
  /\ pc' = [pc EXCEPT ![t] = "returned"]
  /\ UNCHANGED <<buffer, nid, next, reg, spinBuild, assertion_count,
                 assertion_failure_written, assertions, writers, cp>>

\* Line 106: __trap() ends the thread after the recorder returned.
Trap(t) ==
  /\ pc[t] = "returned"
  /\ pc' = [pc EXCEPT ![t] = "trapped"]
  /\ UNCHANGED <<buffer, nid, next, reg, spinBuild, assertion_count,
                 assertion_failure_written, assertions, writers, cp>>

\* The steps of thread t inside dsa_add_new_assertion_failure and after it.
Run(t) ==
  \/ Reserve(t)
  \/ WriteField(t)
  \/ Publish(t)
  \/ SpinLoad(t)
  \/ SpinTest(t)
  \/ SpinElided(t)
  \/ Trap(t)

Next == \E t \in Threads : Call(t) \/ Run(t)

Spec == Init /\ [][Next]_vars

\* Every thread that has entered the recorder is scheduled again and again;
\* whether a thread's assertion fails at all is up to the kernel.
FairSpec == Spec /\ \A t \in Threads : WF_vars(Run(t))

\* ------------------------------------------------------- dstrcpy, stepwise
\* The source strings and the prior contents of the destination of CopySpec.
RECURSIVE StringsUpTo(_)
StringsUpTo(n) ==
  IF n = 0 THEN {<<>>}
  ELSE LET shorter == StringsUpTo(n - 1) IN
         shorter \cup {Append(s, c) : s \in {x \in shorter : Len(x) = n - 1},
                                      c \in Chars}
Sources == StringsUpTo(MaxSrcLen)
Dests == [1..C10_CUDA_DEVICE_SIDE_MAX_STR_LEN -> {NUL, 9}]

CopyInit ==
  /\ RecorderInit
  /\ cp \in {[pc |-> "loop", src |-> s, dst |-> d, dst0 |-> d, i |-> 0,
              reads |-> {}, writes |-> {}] : s \in Sources, d \in Dests}

\* Lines 15-16: the condition holds; one character is copied.
CopyIter ==
  /\ cp.pc = "loop"
  /\ LoopCond(cp.src, cp.i)
  /\ cp' = [cp EXCEPT !.dst = LoopBody(cp.dst, cp.src, cp.i),
                      !.i = cp.i + 1,
                      !.reads = @ \cup {cp.i},
                      !.writes = @ \cup {cp.i}]
  /\ UNCHANGED recorderVars

\* Line 15: the condition, which reads src[i] first, fails; the loop ends.
CopyExit ==
  /\ cp.pc = "loop"
  /\ ~LoopCond(cp.src, cp.i)
  /\ cp' = [cp EXCEPT !.pc = "finish", !.reads = @ \cup {cp.i}]
  /\ UNCHANGED recorderVars

\* Lines 22-25: the terminator of the truncation case, and the return.
CopyFinish ==
  /\ cp.pc = "finish"
  /\ cp' = [cp EXCEPT !.pc = "done",
                      !.dst = Finish(cp.dst, cp.i),
                      !.writes = IF cp.i = C10_CUDA_DEVICE_SIDE_MAX_STR_LEN - 1
                                   THEN @ \cup {0} ELSE @]
  /\ UNCHANGED recorderVars

CopyNext == CopyIter \/ CopyExit \/ CopyFinish

CopySpec == CopyInit /\ [][CopyNext]_vars

\* ---------------------------------------------------------------- helpers
\* The threads that have called the recorder with a buffer.
Callers == {t \in Threads : pc[t] # "idle" /\ buffer[t]}
\* The threads that hold a reservation.
Reserved == {t \in Threads : nid[t] # -1}
\* Thread t is inside the busy-wait of lines 58-60.
Spinning(t) == pc[t] \in {"spin", "spin_test"}
\* Thread t has left the recorder (and perhaps trapped).
Returned(t) == pc[t] \in {"returned", "trapped"}
\* Thread t took the write path and has done the atomicAdd of line 80.
HasPublished(t) == Returned(t) /\ nid[t] # -1 /\ ~OutOfSpace(nid[t])

\* The record thread t's stores make of a zeroed slot.
RECURSIVE StoresDone(_, _, _)
StoresDone(self, t, k) ==
  IF k > Len(Stores) THEN self
  ELSE StoresDone(StoreInto(self, t, Stores[k]), t, k + 1)
RecordOf(t) == StoresDone(ZeroRecord, t, 1)

\* Some store has gone to index k; every store of index k has been done.
Touched(k) == \E s \in StoreSet : writers[k][s] # {}
FullyWritten(k) == \A s \in StoreSet : writers[k][s] # {}
\* Index k holds exactly thread t's record, written by t alone.
HoldsRecordOf(k, t) ==
  /\ \A s \in StoreSet : writers[k][s] = {t}
  /\ assertions[k] = RecordOf(t)

\* --------------------------------------------------------------- claims
\* C1: a thread writes record fields only at a slot index nid with
\* 0 <= nid < capacity; assertions[nid] is never dereferenced with
\* nid >= capacity, the boundary reservation nid == capacity included.
C1_WritesWithinCapacity ==
  /\ \A t \in Threads :
       pc[t] \in {"write", "publish"}
         => nid[t] \in SlotIndices
  /\ \A k \in Reachable : Touched(k) => k \in SlotIndices

\* C2: under fair scheduling every call to the recorder eventually returns
\* and the thread goes on to its trap, for any number of concurrent callers.
C2_EveryCallReturns ==
  <>[](\A t \in Threads : pc[t] \in {"idle", "trapped"})

\* C3: at most capacity records are ever written: assertion_failure_written
\* <= capacity, and at most capacity slots have been started or finished.
C3_AtMostCapacityRecords ==
  /\ assertion_failure_written <= C10_CUDA_DEVICE_SIDE_ASSERTION_COUNT
  /\ Cardinality({k \in Reachable : Touched(k)})
       <= C10_CUDA_DEVICE_SIDE_ASSERTION_COUNT

\* C4: after N > C concurrent calls on a zeroed buffer, once no calling thread
\* can take a further step: assertion_count = N, assertion_failure_written = C,
\* exactly the slots 0..C-1 are populated, each with the arguments of one
\* distinct caller, and the other N - C callers wrote no record.
C4_OverflowOutcome ==
  ( /\ \A t \in Threads : pc[t] \in {"idle", "trapped"}
    /\ Cardinality(Callers) > C10_CUDA_DEVICE_SIDE_ASSERTION_COUNT )
  => /\ assertion_count = Cardinality(Callers)
     /\ assertion_failure_written = C10_CUDA_DEVICE_SIDE_ASSERTION_COUNT
     /\ \A k \in SlotIndices : \E t \in Callers : HoldsRecordOf(k, t)
     /\ \A k \in Reachable \ SlotIndices : ~Touched(k)
     /\ Cardinality({t \in Callers : \A k \in Reachable, s \in StoreSet :
                                        t \notin writers[k][s]})
          = Cardinality(Callers) - C10_CUDA_DEVICE_SIDE_ASSERTION_COUNT

\* C5: while at most capacity threads have called, no caller is dropped or
\* enters the busy-wait, every reservation is a slot of the array, and under
\* fair scheduling every caller's record ends up written and published in its
\* own slot.
C5_NoReportLost ==
  /\ [](assertion_count <= C10_CUDA_DEVICE_SIDE_ASSERTION_COUNT
          => \A t \in Threads :
               /\ ~Spinning(t)
               /\ t \in Reserved => /\ nid[t] \in SlotIndices
                                    /\ pc[t] \in {"write", "publish",
                                                  "returned", "trapped"}
               /\ HasPublished(t) => HoldsRecordOf(nid[t], t))
  /\ <>[](assertion_count <= C10_CUDA_DEVICE_SIDE_ASSERTION_COUNT
            => \A t \in Callers : HasPublished(t) /\ HoldsRecordOf(nid[t], t))

C5_Witness ==
  /\ assertion_count = C10_CUDA_DEVICE_SIDE_ASSERTION_COUNT
  /\ Cardinality(Callers) = C10_CUDA_DEVICE_SIDE_ASSERTION_COUNT
  /\ \A t \in Callers : HasPublished(t) /\ HoldsRecordOf(nid[t], t)

\* C6: every call with a buffer increments assertion_count exactly once, so
\* assertion_count is the number of threads past the reservation step and
\* never decreases, and the indices nid of different threads are distinct.
C6_ReservationExact ==
  /\ [](/\ assertion_count = Cardinality(Reserved)
        /\ \A t \in Reserved : nid[t] \in 0..(assertion_count - 1)
        /\ \A t, u \in Reserved : t # u => nid[t] # nid[u]
        /\ \A t \in Callers : t \in Reserved <=> pc[t] # "reserve")
  /\ [][/\ assertion_count' >= assertion_count
        /\ \A t \in Threads :
             (pc[t] = "reserve" /\ pc'[t] # "reserve")
               => /\ assertion_count' = assertion_count + 1
                  /\ nid'[t] = assertion_count
        /\ \A t \in Threads : nid[t] # -1 => nid'[t] = nid[t]]_vars

C6_Witness ==
  /\ assertion_count = NumThreads
  /\ assertion_count > C10_CUDA_DEVICE_SIDE_ASSERTION_COUNT + 1
  /\ \E t \in Threads : Spinning(t)

\* C7 as claimed: for every slot index k, once assertion_failure_written > k
\* all seven fields of slot k are fully written.
C7_NoTornBehindCounter ==
  \A k \in SlotIndices : assertion_failure_written > k => FullyWritten(k)

\* C7 as amended: for every slot index k, once the thread that reserved k has
\* done its increment of assertion_failure_written, all seven fields of slot k
\* are written, by that thread.
C7_NoTornOncePublished ==
  \A t \in Threads :
    (HasPublished(t) /\ nid[t] \in SlotIndices)
      => \A s \in StoreSet : t \in writers[nid[t]][s]

C7_Witness ==
  \E t \in Threads :
    /\ HasPublished(t) /\ nid[t] \in SlotIndices
    /\ \E u \in Threads : pc[u] = "write" /\ next[u] > 1 /\ nid[u] \in SlotIndices

\* C8: a call with a null buffer returns at once: it reserves nothing, writes
\* no record, publishes nothing, does not wait, and leaves the buffer and
\* every other thread as they were.
C8_NullCallNoOp ==
  /\ [](\A t \in Threads :
          (pc[t] # "idle" /\ ~buffer[t])
            => /\ Returned(t)
               /\ nid[t] = -1
               /\ \A k \in Reachable, s \in StoreSet : t \notin writers[k][s])
  /\ [][\A t \in Threads :
          (pc[t] = "idle" /\ pc'[t] # "idle" /\ ~buffer'[t])
            => /\ pc'[t] = "returned"
               /\ \A u \in Threads \ {t} : pc'[u] = pc[u]
               /\ UNCHANGED <<nid, next, reg, assertion_count,
                              assertion_failure_written, assertions,
                              writers>>]_vars

C8_Witness ==
  \E t, u \in Threads :
    /\ ~buffer[t] /\ Returned(t)
    /\ pc[u] = "write" /\ next[u] > 1
    /\ assertion_count > 0

\* C9: for every source of length L < N - 1 and whatever the destination held
\* before, after dstrcpy dst[0..L-1] is the source and dst[L] is the null byte.
C9_ShortSourceCopied ==
  (cp.pc = "done" /\ Len(cp.src) < C10_CUDA_DEVICE_SIDE_MAX_STR_LEN - 1)
    => /\ \A k \in 1..Len(cp.src) : cp.dst[k] = cp.src[k]
       /\ cp.dst[Len(cp.src) + 1] = NUL
       /\ CStr(cp.dst) = cp.src

\* C10: for every source of length L >= N - 1 (L = N - 1 included), dstrcpy
\* leaves dst[0] null: the destination reads as the empty string and never as
\* a truncated prefix of the source.
C10_LongSourceEmptied ==
  (cp.pc = "done" /\ Len(cp.src) >= C10_CUDA_DEVICE_SIDE_MAX_STR_LEN - 1)
    => /\ cp.dst[1] = NUL
       /\ CStr(cp.dst) = <<>>
       /\ cp.dst = dstrcpy(cp.dst0, cp.src)
       /\ cp.i = C10_CUDA_DEVICE_SIDE_MAX_STR_LEN - 1

C10_Witness ==
  /\ cp.pc = "done"
  /\ Len(cp.src) = C10_CUDA_DEVICE_SIDE_MAX_STR_LEN - 1
  /\ cp.dst0[1] # NUL

\* Thread t's reservation failed the check of line 46: its report is dropped.
Dropped(t) == nid[t] # -1 /\ OutOfSpace(nid[t])

\* C11: a thread increments assertion_failure_written only after it has
\* written all seven fields of its own slot, so in every state the number of
\* fully written slots of the array is >= assertion_failure_written.
C11_PublicationFollowsWrites ==
  /\ [](Cardinality({k \in SlotIndices : FullyWritten(k)})
          >= assertion_failure_written)
  /\ [][assertion_failure_written' # assertion_failure_written
          => \E t \in Threads :
               /\ pc[t] = "publish" /\ pc'[t] = "returned"
               /\ nid[t] \in SlotIndices
               /\ \A s \in StoreSet : t \in writers[nid[t]][s]]_vars

C13_WritePathNonBlocking ==
  \A t \in Threads :
    WF_vars(Run(t))
      => ( (nid[t] \in 0..C10_CUDA_DEVICE_SIDE_ASSERTION_COUNT)
             ~> (HasPublished(t)
                   /\ \A s \in StoreSet : t \in writers[nid[t]][s]) )

C13_Witness ==
  \E t, u, v \in Threads :
    /\ HasPublished(t)
    /\ pc[u] = "spin_test"
    /\ pc[v] = "write" /\ next[v] = 1

\* C14 as claimed: a thread modifies only the two counters and the fields of
\* the one slot of the array whose index it reserved; a thread whose report
\* is dropped stores into no record and does not publish; a slot no writing
\* thread reserved keeps its zero contents.
C14_RecorderFrame ==
  /\ [](\A k \in Reachable \ SlotIndices :
          ~Touched(k) /\ assertions[k] = ZeroRecord)
  /\ [](\A t \in Threads :
          Dropped(t) => /\ \A k \in Reachable, s \in StoreSet :
                             t \notin writers[k][s]
                        /\ pc[t] \notin {"write", "publish"})
  /\ [](\A k \in SlotIndices :
          (\A t \in Threads : nid[t] = k => Dropped(t))
            => assertions[k] = ZeroRecord)
  /\ [][\A k \in Reachable :
          (assertions'[k] # assertions[k] \/ writers'[k] # writers[k])
            => \E t \in Threads :
                 /\ pc[t] = "write" /\ nid[t] = k /\ k \in SlotIndices
                 /\ \A j \in Reachable \ {k} :
                      assertions'[j] = assertions[j]]_vars

\* C15: dstrcpy reads the source only at indices 0..N-1 and never after its
\* terminator, writes the destination only at indices 0..N-2, and changes
\* nothing but the destination.
C15_CopierBounds ==
  /\ [](/\ cp.reads \subseteq 0..(C10_CUDA_DEVICE_SIDE_MAX_STR_LEN - 1)
        /\ \A i \in cp.reads : i <= Len(cp.src)
        /\ cp.writes \subseteq 0..(C10_CUDA_DEVICE_SIDE_MAX_STR_LEN - 2)
        /\ \A k \in 1..C10_CUDA_DEVICE_SIDE_MAX_STR_LEN :
             (k - 1) \notin cp.writes => cp.dst[k] = cp.dst0[k]
        /\ Len(cp.dst) = C10_CUDA_DEVICE_SIDE_MAX_STR_LEN)
  /\ [][/\ cp'.src = cp.src
        /\ cp'.dst0 = cp.dst0
        /\ UNCHANGED recorderVars]_vars

C15_Witness ==
  /\ cp.pc = "done"
  /\ Len(cp.src) > C10_CUDA_DEVICE_SIDE_MAX_STR_LEN
  /\ (C10_CUDA_DEVICE_SIDE_MAX_STR_LEN - 1) \in cp.reads
  /\ (C10_CUDA_DEVICE_SIDE_MAX_STR_LEN - 2) \in cp.writes
  /\ cp.dst0[C10_CUDA_DEVICE_SIDE_MAX_STR_LEN] # NUL

\* C16: assertion_failure_written is incremented exactly once by each thread
\* that completes the write path and by no other thread, never decreases, and
\* is always <= assertion_count.
C16_PublicationAccounting ==
  /\ [](/\ assertion_failure_written
             = Cardinality({t \in Threads : HasPublished(t)})
        /\ assertion_failure_written <= assertion_count)
  /\ [][/\ assertion_failure_written' >= assertion_failure_written
        /\ assertion_failure_written' # assertion_failure_written
             => /\ assertion_failure_written' = assertion_failure_written + 1
                /\ \E t \in Threads :
                     /\ pc[t] = "publish" /\ pc'[t] = "returned"
                     /\ ~Dropped(t)
        /\ \A t \in Threads :
             (pc[t] = "publish" /\ pc'[t] # "publish")
               => assertion_failure_written' = assertion_failure_written + 1]_vars

C16_Witness ==
  /\ assertion_failure_written = C10_CUDA_DEVICE_SIDE_ASSERTION_COUNT
  /\ assertion_count = NumThreads
  /\ \E t, u \in Threads : Spinning(t) /\ pc[u] = "publish"

\* C17: each slot is written by at most one thread; once a thread has
\* published slot k, the seven fields of slot k hold exactly that thread's
\* arguments (the strings as dstrcpy leaves them) and no thread modifies them
\* again.
C17_PublishedRecordsStable ==
  /\ [](\A k \in SlotIndices :
          Cardinality(UNION {writers[k][s] : s \in StoreSet}) <= 1)
  /\ [](\A t \in Threads :
          (HasPublished(t) /\ nid[t] \in SlotIndices)
            => HoldsRecordOf(nid[t], t))
  /\ [][\A t \in Threads :
          (HasPublished(t) /\ nid[t] \in SlotIndices)
            => /\ assertions'[nid[t]] = assertions[nid[t]]
               /\ writers'[nid[t]] = writers[nid[t]]]_vars

C17_Witness ==
  \E t, u, v \in Threads :
    /\ HasPublished(t) /\ nid[t] = 0
    /\ HasPublished(u) /\ nid[u] = 1
    /\ assertions[0] # assertions[1]
    /\ pc[v] = "write" /\ next[v] > 3

====
